---- MODULE Spec2Model ----
(***************************************************************************)
(* A model of piccolo's schema and query core:                             *)
(*   - LazyTableReference and LazyColumnReferenceStore                     *)
(*     (piccolo/columns/reference.py),                                     *)
(*   - Table.__init_subclass__ and Table.querystring (piccolo/table.py),   *)
(*   - the Update query builder (piccolo/query/methods/update.py).         *)
(* Python objects live in heaps (sequences indexed by object identity);    *)
(* every method call is one action and records itself in lastCall.         *)
(***************************************************************************)
EXTENDS Naturals, Sequences, FiniteSets, TLC

VARIABLES
    refs,       \* heap of LazyTableReference objects
    classes,    \* heap of Table subclasses, in order of declaration
    columns,    \* heap of Column objects
    store,      \* LAZY_COLUMN_REFERENCES.foreign_key_columns
    builder,    \* the Update query under construction
    row,        \* a Table instance: its class's column list and its values
    lastCall    \* the most recent call, its arguments and its outcome

vars == <<refs, classes, columns, store, builder, row, lastCall>>

(***************************************************************************)
(* Bounds of the model.                                                    *)
(***************************************************************************)
MaxRefs == 1
MaxTables == 2
MaxStore == 2
MaxWhere == 2
MaxRowCols == 3

(***************************************************************************)
(* Python values.                                                          *)
(***************************************************************************)
None == "<None>"
NoAttr == "<no attribute>"
NoError == "ok"

\* Python truthiness of an Optional[str].
Truthy(x) == x # None /\ x # ""

RefNames == {"Manager"}
ClassNames == {"Manager", "Band"}
AppArgs == {None, "", "music"}
ModuleArgs == {None, "", "tables"}
ModuleNames == {"tables", "other"}

NoCall ==
    [op |-> "none", ref |-> 0, cls |-> 0, args |-> <<>>, scanned |-> 0,
     invoked |-> <<>>, err |-> NoError, result |-> <<>>]

(***************************************************************************)
(* LazyTableReference                                                      *)
(***************************************************************************)

\* The error __post_init__ raises for the two locator arguments, if any.
PostInitError(app_name, module_path) ==
    IF app_name = None /\ module_path = None
    THEN "ValueError"
    ELSE IF Truthy(app_name) /\ Truthy(module_path)
         THEN "ValueError"
         ELSE NoError

\* The object the dataclass constructor leaves behind when it succeeds.
NewReference(table_class_name, app_name, module_path) ==
    [table_class_name |-> table_class_name, app_name |-> app_name,
     module_path |-> module_path, ready |-> FALSE]

\* LazyTableReference(table_class_name, app_name, module_path)
Construct ==
    \E n \in RefNames, a \in AppArgs, m \in ModuleArgs :
        LET e == PostInitError(a, m) IN
        /\ Len(refs) < MaxRefs
        /\ refs' = IF e = NoError THEN Append(refs, NewReference(n, a, m))
                   ELSE refs
        /\ lastCall' = [NoCall EXCEPT !.op = "construct", !.args = <<n, a, m>>,
                                      !.err = e,
                                      !.ref = IF e = NoError THEN Len(refs) + 1
                                              ELSE 0]
        /\ UNCHANGED <<classes, columns, store, builder, row>>

\* The table classes a caller can hand to set_ready: what the method reads of
\* each is __name__, __module__ and _meta.app_name.  TableMeta as declared in
\* table.py has no app_name field (NoAttr); a class whose _meta carries one
\* has it as a string.
CandidateClasses ==
    [name : ClassNames, module : ModuleNames, app_name : {NoAttr, "music"}]

\* One iteration of the loop of set_ready: "ready" (set and break), "raise"
\* (reading _meta.app_name fails) or "next".
\* CandidateOutcome without the comparison of table_class_name with __name__.
CandidateOutcomeAnyName(r, c) ==
    IF Truthy(r.module_path) /\ r.module_path = c.module
    THEN "ready"
    ELSE IF Truthy(r.app_name)
         THEN IF c.app_name = NoAttr THEN "raise"
              ELSE IF r.app_name = c.app_name THEN "ready" ELSE "next"
         ELSE "next"

\* The body of the loop as written.
CandidateOutcome(r, c) ==
    IF r.table_class_name = c.name
    THEN IF Truthy(r.module_path) /\ r.module_path = c.module
         THEN "ready"
         ELSE IF Truthy(r.app_name)
              THEN IF c.app_name = NoAttr THEN "raise"
                   ELSE IF r.app_name = c.app_name THEN "ready" ELSE "next"
              ELSE "next"
    ELSE "next"

\* The for loop of set_ready from candidate k on: the flag it leaves, how many
\* candidates it examined, and the error that ended it.
RECURSIVE Scan(_, _, _)
Scan(r, cs, k) ==
    IF k > Len(cs)
    THEN [ready |-> FALSE, scanned |-> Len(cs), err |-> NoError]
    ELSE LET o == CandidateOutcome(r, cs[k]) IN
         IF o = "ready"
         THEN [ready |-> TRUE, scanned |-> k, err |-> NoError]
         ELSE IF o = "raise"
              THEN [ready |-> FALSE, scanned |-> k, err |-> "AttributeError"]
              ELSE Scan(r, cs, k + 1)

\* set_ready without its `if self.ready: return`.
SetReadyResultNoGuard(r, cs) == Scan(r, cs, 1)

\* LazyTableReference.set_ready(table_classes)
SetReadyResult(r, cs) ==
    IF r.ready
    THEN [ready |-> TRUE, scanned |-> 0, err |-> NoError]
    ELSE Scan(r, cs, 1)

\* The lists handed to set_ready: none, one or two table classes.
CandidateLists ==
    {<<>>} \cup {<<c>> : c \in CandidateClasses}
           \cup {<<c, d>> : c \in CandidateClasses, d \in CandidateClasses}

\* refs[i].set_ready(cs), called directly
SetReady ==
    \E i \in 1..Len(refs), cs \in CandidateLists :
        LET res == SetReadyResult(refs[i], cs) IN
        /\ refs' = [refs EXCEPT ![i].ready = res.ready]
        /\ lastCall' = [NoCall EXCEPT !.op = "set_ready", !.ref = i,
                                      !.args = cs, !.scanned = res.scanned,
                                      !.err = res.err]
        /\ UNCHANGED <<classes, columns, store, builder, row>>

\* What resolve() can do: it reads the reference and asks the app registry
\* (Finder) or the module importer, whose answers the reference does not
\* determine.
ResolveOutcomes(r) ==
    IF r.app_name # None
    THEN {"table", "LookupError"}
    ELSE IF Truthy(r.module_path)
         THEN {"table", "ImportError", "ValueError"}
         ELSE {"ValueError"}

\* refs[i].resolve()
Resolve ==
    \E i \in 1..Len(refs) :
        \E o \in ResolveOutcomes(refs[i]) :
            /\ lastCall' = [NoCall EXCEPT !.op = "resolve", !.ref = i,
                                          !.err = IF o = "table" THEN NoError
                                                  ELSE o,
                                          !.result = IF o = "table"
                                                     THEN <<"table">>
                                                     ELSE <<>>]
            /\ UNCHANGED <<refs, classes, columns, store, builder, row>>

(***************************************************************************)
(* Table.__init_subclass__                                                 *)
(***************************************************************************)

\* The column attributes a class body may declare, and the column types it
\* may give them.  Table itself declares id = PrimaryKey().
DeclAttrs == {"name", "uid"}
ColumnKinds == {"Varchar", "PrimaryKey"}

\* dir(cls) returns the attribute names sorted alphabetically.
AttrOrder == <<"id", "name", "uid">>

Bodies == UNION {[S -> ColumnKinds] : S \in SUBSET DeclAttrs}
EmptyBody == [a \in {} |-> "Varchar"]

\* _camel_to_snake(cls.__name__) on the class names of the model.
CamelToSnake(n) == IF n = "Manager" THEN "manager" ELSE "band"

\* A freshly constructed Column(): no name, no owning table yet.
NewColumn(kind) == [kind |-> kind, name |-> None, table |-> 0]

\* Table.id, the placeholder PrimaryKey() of the base class: columns[1].
BaseColumns == <<NewColumn("PrimaryKey")>>
BaseAttrs == [a \in {"id"} |-> 1]

\* getattr(cls, a) along the inheritance chain of class c of heap cs (0 is
\* Table itself): the Column object bound to a, or 0 when there is none.
RECURSIVE GetAttr(_, _, _)
GetAttr(cs, c, a) ==
    IF c = 0
    THEN IF a \in DOMAIN BaseAttrs THEN BaseAttrs[a] ELSE 0
    ELSE IF a \in DOMAIN cs[c].attrs
         THEN cs[c].attrs[a]
         ELSE GetAttr(cs, cs[c].parent, a)

\* The position of attribute a among the attributes a class body declares.
DeclPos(b, a) == Cardinality({k \in 1..Len(AttrOrder) :
                      /\ AttrOrder[k] \in DOMAIN b
                      /\ \E j \in 1..Len(AttrOrder) :
                             AttrOrder[j] = a /\ k <= j})

\* The column list the loop over attribute_names collects for class c.
CollectColumns(cs, c) ==
    LET attribute_names ==
            SelectSeq(AttrOrder, LAMBDA a : GetAttr(cs, c, a) # 0)
    IN  [k \in 1..Len(attribute_names) |->
            [attr |-> attribute_names[k],
             col |-> GetAttr(cs, c, attribute_names[k])]]

\* column._meta._name = attribute_name; column._meta._table = cls, for every
\* collected column.
StampOwner(heap, found, c) ==
    [k \in 1..Len(heap) |->
        IF \E j \in 1..Len(found) : found[j].col = k
        THEN LET j == CHOOSE j \in 1..Len(found) : found[j].col = k IN
             [heap[k] EXCEPT !.name = found[j].attr, !.table = c]
        ELSE heap[k]]

\* class <n>(<parent>, tablename=<tn>): <body>, in module m.  The body's
\* Column objects are constructed, then __init_subclass__ runs: it binds a
\* new PrimaryKey to cls.id, collects and stamps the columns that dir(cls)
\* and getattr reach, and sets cls._meta (non_default_columns is always []
\* and db comes from engine_finder(); neither is read by the model).
Declare(names, modules, tablenames, bodies) ==
    \E n \in names, m \in modules, tn \in tablenames, b \in bodies :
        \E p \in 0..Len(classes) :
            LET c == Len(classes) + 1
                declared == SelectSeq(AttrOrder, LAMBDA a : a \in DOMAIN b)
                heap1 == columns \o
                         [k \in 1..Len(declared) |-> NewColumn(b[declared[k]])]
                heap2 == Append(heap1, NewColumn("PrimaryKey"))
                attrs == [a \in DOMAIN b \cup {"id"} |->
                             IF a = "id" THEN Len(heap2)
                             ELSE Len(columns) + DeclPos(b, a)]
                cls0 == [name |-> n, module |-> m, parent |-> p,
                         attrs |-> attrs,
                         meta |-> [tablename |-> "", columns |-> <<>>]]
                cs1 == Append(classes, cls0)
                found == CollectColumns(cs1, c)
                tablename == IF Truthy(tn) THEN tn ELSE CamelToSnake(n)
            IN  /\ Len(classes) < MaxTables
                /\ columns' = StampOwner(heap2, found, c)
                /\ classes' = Append(classes,
                       [cls0 EXCEPT !.meta =
                           [tablename |-> tablename,
                            columns |-> [k \in 1..Len(found) |-> found[k].col]]])
                /\ lastCall' = [NoCall EXCEPT !.op = "declare", !.cls = c,
                                              !.args = <<n, m, tn, b>>]
                /\ UNCHANGED <<refs, store, builder, row>>

(***************************************************************************)
(* LazyColumnReferenceStore                                                *)
(***************************************************************************)

\* foreign_key_columns.append(fk): fk._foreign_key_meta.references is either a
\* LazyTableReference (an index of refs) or a Table subclass (an index of
\* classes).
Register ==
    /\ Len(store) < MaxStore
    /\ \/ \E i \in 1..Len(refs) :
              store' = Append(store, [lazy |-> TRUE, target |-> i])
       \/ \E c \in 1..Len(classes) :
              store' = Append(store, [lazy |-> FALSE, target |-> c])
    /\ lastCall' = [NoCall EXCEPT !.op = "register"]
    /\ UNCHANGED <<refs, classes, columns, builder, row>>

\* What set_ready reads of table class c.  TableMeta has the fields tablename,
\* columns, non_default_columns and db: reading _meta.app_name fails.
ClassView(c) ==
    [name |-> classes[c].name, module |-> classes[c].module, app_name |-> NoAttr]

\* The loop of LazyColumnReferenceStore.set_ready from entry k on: the
\* references after it, the entries whose set_ready it called, and the error
\* that ended it.  A Table subclass has no set_ready attribute.
RECURSIVE Notify(_, _, _, _)
Notify(rs, k, cand, invoked) ==
    IF k > Len(store)
    THEN [refs |-> rs, invoked |-> invoked, err |-> NoError]
    ELSE IF ~store[k].lazy
         THEN [refs |-> rs, invoked |-> invoked, err |-> "AttributeError"]
         ELSE LET i == store[k].target
                  res == SetReadyResult(rs[i], <<cand>>)
                  rs1 == [rs EXCEPT ![i].ready = res.ready]
              IN  IF res.err # NoError
                  THEN [refs |-> rs1, invoked |-> Append(invoked, k),
                        err |-> res.err]
                  ELSE Notify(rs1, k + 1, cand, Append(invoked, k))

\* LAZY_COLUMN_REFERENCES.set_ready(classes[c])
StoreSetReady ==
    \E c \in 1..Len(classes) :
        LET res == Notify(refs, 1, ClassView(c), <<>>) IN
        /\ refs' = res.refs
        /\ lastCall' = [NoCall EXCEPT !.op = "store_set_ready", !.cls = c,
                                      !.invoked = res.invoked, !.err = res.err]
        /\ UNCHANGED <<classes, columns, store, builder, row>>

(***************************************************************************)
(* QueryString                                                             *)
(***************************************************************************)

\* A template is a sequence of pieces of text in which the piece "{}" is a
\* placeholder; an argument is a plain value or a nested QueryString.
Placeholder == "{}"
Val(v) == [nested |-> FALSE, value |-> v]
Nested(q) == [nested |-> TRUE, value |-> q]
QueryString(template, args) == [template |-> template, args |-> args]

\* The text of a sequence of pieces.
RECURSIVE Text(_)
Text(t) == IF t = <<>> THEN "" ELSE Head(t) \o Text(Tail(t))

\* ts[1] sep ts[2] sep ... : str.join on sequences of pieces.
RECURSIVE Join(_, _)
Join(ts, sep) ==
    IF ts = <<>> THEN <<>>
    ELSE IF Len(ts) = 1 THEN ts[1]
         ELSE ts[1] \o <<sep>> \o Join(Tail(ts), sep)

\* Rendering: depth first, left to right; a placeholder takes the next
\* argument, a plain value is bound and a nested QueryString spliced in.
RECURSIVE Bundle(_, _)
Bundle(template, args) ==
    IF template = <<>>
    THEN [sql |-> <<>>, binds |-> <<>>]
    ELSE IF Head(template) # Placeholder
         THEN LET rest == Bundle(Tail(template), args) IN
              [sql |-> <<Head(template)>> \o rest.sql, binds |-> rest.binds]
         ELSE LET rest == Bundle(Tail(template), Tail(args))
                  a == Head(args)
              IN  IF a.nested
                  THEN LET inner == Bundle(a.value.template, a.value.args) IN
                       [sql |-> inner.sql \o rest.sql,
                        binds |-> inner.binds \o rest.binds]
                  ELSE [sql |-> <<Placeholder>> \o rest.sql,
                        binds |-> <<a.value>> \o rest.binds]

Render(q) == Bundle(q.template, q.args)

(***************************************************************************)
(* Update                                                                  *)
(***************************************************************************)

\* The table the query is bound to: class Band(Table) with the columns name
\* and popularity, and the column name of the table its foreign key manager
\* references, reached as Band.manager.name.
UpdateTable == [name |-> "Band", tablename |-> CamelToSnake("Band")]

UpdateColumns ==
    {[id |-> "Band.name", name |-> "name", call_chain |-> <<>>],
     [id |-> "Band.popularity", name |-> "popularity", call_chain |-> <<>>],
     [id |-> "Band.manager.name", name |-> "name",
      call_chain |-> <<"manager">>]}

NewValues == {"Spamalot", "1000"}

\* column == value
Predicates ==
    {[column |-> "name", value |-> "Pythonistas"],
     [column |-> "popularity", value |-> "500"]}

\* Where.querystring and And.querystring
WhereQuerystring(p) ==
    QueryString(<<p.column \o " = ", Placeholder>>, <<Val(p.value)>>)

AndQuerystring(q1, q2) ==
    QueryString(<<"(", Placeholder, " AND ", Placeholder, ")">>,
                <<Nested(q1), Nested(q2)>>)

\* Update(table=cls): no values, no predicate.
NewBuilder == [values |-> <<>>, where |-> <<>>]

\* Band.update()
NewUpdate ==
    /\ builder' = NewBuilder
    /\ lastCall' = [NoCall EXCEPT !.op = "update"]
    /\ UNCHANGED <<refs, classes, columns, store, row>>

\* ValuesDelegate.values: dict.update keeps the place of a key it holds.
DictUpdate(d, c, v) ==
    IF \E k \in 1..Len(d) : d[k].column = c
    THEN [k \in 1..Len(d) |->
             IF d[k].column = c THEN [column |-> c, value |-> v] ELSE d[k]]
    ELSE Append(d, [column |-> c, value |-> v])

\* query.values({c: v})
Values ==
    \E c \in UpdateColumns, v \in NewValues :
        /\ builder' = [builder EXCEPT !.values = DictUpdate(@, c, v)]
        /\ lastCall' = [NoCall EXCEPT !.op = "values", !.args = <<c.id, v>>]
        /\ UNCHANGED <<refs, classes, columns, store, row>>

\* The number of predicates where() has been given: _where is empty, or the
\* QueryString of one predicate, or that of an And whose left side holds the
\* earlier ones.
RECURSIVE WhereDepth(_)
WhereDepth(w) ==
    IF w = <<>> THEN 0
    ELSE IF Len(w[1].args) = 1 THEN 1
         ELSE 1 + WhereDepth(<<w[1].args[1].value>>)

\* query.where(p): WhereDelegate.where keeps the first predicate and ANDs
\* every later one to it.
Where ==
    \E p \in Predicates :
        /\ WhereDepth(builder.where) < MaxWhere
        /\ builder' = [builder EXCEPT
               !.where = IF @ = <<>> THEN <<WhereQuerystring(p)>>
                         ELSE <<AndQuerystring(@[1], WhereQuerystring(p))>>]
        /\ lastCall' = [NoCall EXCEPT !.op = "where", !.args = <<p>>]
        /\ UNCHANGED <<refs, classes, columns, store, row>>

\* validate() without the loop over the call chains.
ValidateErrorNoChainCheck(values) ==
    IF Len(values) = 0 THEN "ValueError" ELSE NoError

\* Update.validate(): the error it raises, if any.
ValidateError(values) ==
    IF Len(values) = 0
    THEN "ValueError"
    ELSE IF \E k \in 1..Len(values) : Len(values[k].column.call_chain) > 0
         THEN "ValueError"
         ELSE NoError

\* query.validate()
Validate ==
    /\ lastCall' = [NoCall EXCEPT !.op = "validate",
                                  !.err = ValidateError(builder.values)]
    /\ UNCHANGED <<refs, classes, columns, store, builder, row>>

\* The QueryString default_querystring builds once validate() has passed.
UpdateQuerystring(b) ==
    LET columns_str ==
            Join([k \in 1..Len(b.values) |->
                     <<b.values[k].column.name \o " = ", Placeholder>>], ", ")
        query == <<"UPDATE " \o UpdateTable.tablename \o " SET ">> \o columns_str
        querystring ==
            QueryString(query,
                        [k \in 1..Len(b.values) |-> Val(b.values[k].value)])
    IN  IF b.where # <<>>
        THEN QueryString(<<Placeholder, " WHERE ", Placeholder>>,
                         <<Nested(querystring), Nested(b.where[1])>>)
        ELSE querystring

\* query.default_querystring
DefaultQuerystring ==
    /\ LET e == ValidateError(builder.values) IN
       lastCall' = [NoCall EXCEPT !.op = "default_querystring", !.err = e,
                                  !.result = IF e = NoError
                                             THEN <<UpdateQuerystring(builder)>>
                                             ELSE <<>>]
    /\ UNCHANGED <<refs, classes, columns, store, builder, row>>

(***************************************************************************)
(* Table.querystring                                                       *)
(***************************************************************************)

\* The column list of the row's table, as bootstrap collects it.
RowColumnNames == <<"id", "name", "popularity", "zone">>

\* The values a row holds: plain values, and Unquoted SQL text.
Plain(v) == [unquoted |-> FALSE, value |-> v]
Unquoted(v) == [unquoted |-> TRUE, value |-> v]
RowValues ==
    {Plain("Pythonistas"), Plain("500"), Unquoted("DEFAULT"), Unquoted("null")}

NoRow == [cols |-> <<>>, values |-> <<>>]

\* Band(**kwargs) with a value given for every column
NewRow ==
    \E n \in 1..MaxRowCols :
        \E vs \in [{RowColumnNames[k] : k \in 1..n} -> RowValues] :
            /\ row' = [cols |-> SubSeq(RowColumnNames, 1, n), values |-> vs]
            /\ lastCall' = [NoCall EXCEPT !.op = "new_row"]
            /\ UNCHANGED <<refs, classes, columns, store, builder>>

\* row[key] = value
SetItem ==
    \E k \in 1..Len(row.cols), v \in RowValues :
        /\ row' = [row EXCEPT !.values[row.cols[k]] = v]
        /\ lastCall' = [NoCall EXCEPT !.op = "setitem",
                                      !.args = <<row.cols[k], v>>]
        /\ UNCHANGED <<refs, classes, columns, store, builder>>

\* filtered_args without the filter: every value is bound.
FilteredArgsUnfiltered(r) ==
    [k \in 1..Len(r.cols) |-> Val(r.values[r.cols[k]].value)]

\* filtered_args: the values that are not Unquoted, in column order.
FilteredArgs(r) ==
    LET kept == SelectSeq(r.cols, LAMBDA c : ~r.values[c].unquoted) IN
    [k \in 1..Len(kept) |-> Val(r.values[kept[k]].value)]

\* row.querystring
RowQuerystring(r) ==
    LET query == Join([k \in 1..Len(r.cols) |->
                          IF r.values[r.cols[k]].unquoted
                          THEN <<r.values[r.cols[k]].value>>
                          ELSE <<Placeholder>>], ",")
    IN  QueryString(<<"(">> \o query \o <<")">>, FilteredArgs(r))

Querystring ==
    /\ row # NoRow
    /\ lastCall' = [NoCall EXCEPT !.op = "querystring",
                                  !.result = <<RowQuerystring(row)>>]
    /\ UNCHANGED <<refs, classes, columns, store, builder, row>>

Init ==
    /\ refs = <<>>
    /\ classes = <<>>
    /\ columns = BaseColumns
    /\ store = <<>>
    /\ builder = NewBuilder
    /\ row = NoRow
    /\ lastCall = NoCall

NextRef == Construct \/ SetReady \/ Resolve

SpecRef == Init /\ [][NextRef]_vars

NextTable == Declare(ClassNames, {"tables"}, {None, "bands"}, Bodies)

SpecTable == Init /\ [][NextTable]_vars

NextStore ==
    \/ Construct
    \/ Register
    \/ Declare(ClassNames, ModuleNames, {None}, {EmptyBody})
    \/ StoreSetReady

SpecStore == Init /\ [][NextStore]_vars

NextUpdate == NewUpdate \/ Values \/ Where \/ Validate \/ DefaultQuerystring

SpecUpdate == Init /\ [][NextUpdate]_vars

NextRow == NewRow \/ SetItem \/ Querystring

SpecRow == Init /\ [][NextRow]_vars

(***************************************************************************)
(* Properties of LazyTableReference                                        *)
(***************************************************************************)

\* A locator argument counts as set when it is neither None nor empty.
LocatorSet(x) == x # None /\ x # ""

ExactlyOneLocator(a, m) ==
    (LocatorSet(a) /\ ~LocatorSet(m)) \/ (~LocatorSet(a) /\ LocatorSet(m))

\* C1: construction succeeds only when exactly one of app_name and
\* module_path is set (for every combination of None, empty and non-empty
\* arguments), so every LazyTableReference that exists has exactly one
\* locator.
C1_ExactlyOneLocator ==
    /\ \A i \in 1..Len(refs) :
           ExactlyOneLocator(refs[i].app_name, refs[i].module_path)
    /\ lastCall.op = "construct" =>
           (lastCall.err = NoError
                <=> ExactlyOneLocator(lastCall.args[2], lastCall.args[3]))

\* A table class matches a reference when its class name is the reference's
\* table_class_name and its module is the reference's module_path or its app
\* name is the reference's app_name.
ClaimMatch(r, c) ==
    /\ c.name = r.table_class_name
    /\ \/ c.module = r.module_path
       \/ c.app_name = r.app_name

FirstMatch(r, cs, k) ==
    /\ k \in 1..Len(cs)
    /\ ClaimMatch(r, cs[k])
    /\ \A j \in 1..(k - 1) : ~ClaimMatch(r, cs[j])

\* C3: a reference becomes ready only in a set_ready call on it that was
\* handed a matching table class, the scan stops at the first matching
\* candidate, and a set_ready call none of whose candidates matches leaves
\* the reference unready.
C3_ReadyOnlyOnMatch ==
    [][/\ \A i \in 1..Len(refs) :
              (i <= Len(refs') /\ ~refs[i].ready /\ refs'[i].ready) =>
                  /\ lastCall'.op = "set_ready"
                  /\ lastCall'.ref = i
                  /\ FirstMatch(refs[i], lastCall'.args, lastCall'.scanned)
       /\ (/\ lastCall'.op = "set_ready"
           /\ ~refs[lastCall'.ref].ready
           /\ \A k \in 1..Len(lastCall'.args) :
                  ~ClaimMatch(refs[lastCall'.ref], lastCall'.args[k]))
              => ~refs'[lastCall'.ref].ready
      ]_vars

\* A set_ready call that made the reference ready at its first candidate and
\* left a second, matching candidate unexamined.
C3_Witness ==
    /\ lastCall.op = "set_ready"
    /\ refs[lastCall.ref].ready
    /\ lastCall.scanned = 1
    /\ Len(lastCall.args) = 2
    /\ ClaimMatch(refs[lastCall.ref], lastCall.args[2])
    /\ lastCall.args[2] # lastCall.args[1]

\* C4: a reference starts unready, and once ready it stays ready with every
\* field unchanged; set_ready on a ready reference examines no candidate,
\* and resolve() changes no reference.
C4_ReadyMonotonic ==
    [][/\ Len(refs') >= Len(refs)
       /\ \A i \in 1..Len(refs) :
              /\ refs[i].ready => refs'[i] = refs[i]
              /\ refs'[i] = [refs[i] EXCEPT !.ready = refs'[i].ready]
       /\ \A i \in (Len(refs) + 1)..Len(refs') : ~refs'[i].ready
       /\ (lastCall'.op = "set_ready" /\ refs[lastCall'.ref].ready) =>
              (lastCall'.scanned = 0 /\ refs' = refs)
       /\ lastCall'.op = "resolve" => refs' = refs
      ]_vars

\* A set_ready call on a reference that was already ready, handed a list
\* whose candidates do not match it.
C4_Witness ==
    /\ lastCall.op = "set_ready"
    /\ refs[lastCall.ref].ready
    /\ lastCall.scanned = 0
    /\ Len(lastCall.args) = 2
    /\ \A k \in 1..2 : ~ClaimMatch(refs[lastCall.ref], lastCall.args[k])

(***************************************************************************)
(* Properties of the store and of schema bootstrap                         *)
(***************************************************************************)

\* C2: once a table's bootstrap has completed, every lazy reference
\* registered in the store whose target name and locator match that table
\* is ready.
C2_ReadyAfterBootstrap ==
    \A c \in 1..Len(classes) :
        \A k \in 1..Len(store) :
            (store[k].lazy /\ ClaimMatch(refs[store[k].target], ClassView(c)))
                => refs[store[k].target].ready

LazyEntries == SelectSeq([k \in 1..Len(store) |-> k], LAMBDA k : store[k].lazy)

\* C9: a notification of the store calls set_ready on exactly the registered
\* foreign keys whose references is a LazyTableReference, skips those whose
\* references is a table class, and does not fail.
C9_NotifySkipsResolved ==
    lastCall.op = "store_set_ready" =>
        /\ lastCall.err = NoError
        /\ lastCall.invoked = LazyEntries

\* C7: after bootstrap every table's column list holds exactly one
\* primary-key column.
C7_OnePrimaryKey ==
    \A c \in 1..Len(classes) :
        Cardinality({k \in 1..Len(classes[c].meta.columns) :
            columns[classes[c].meta.columns[k]].kind = "PrimaryKey"}) = 1

\* C10: every column of a bootstrapped table's column list has that table as
\* its owning table, whatever tables were bootstrapped afterwards.
C10_OwnerIsDeclaringTable ==
    \A c \in 1..Len(classes) :
        \A k \in 1..Len(classes[c].meta.columns) :
            columns[classes[c].meta.columns[k]].table = c

(***************************************************************************)
(* Properties of the Update builder and of Table.querystring               *)
(***************************************************************************)

InvalidUpdate(b) ==
    \/ Len(b.values) = 0
    \/ \E k \in 1..Len(b.values) : b.values[k].column.call_chain # <<>>

\* C5: validate() and rendering fail with a usage error exactly when no
\* value was supplied or some target column has a non-empty call chain; a
\* failed rendering produces no QueryString, and update(), values() and
\* where() never fail.
C5_ValidateFailsExactlyWhenInvalid ==
    /\ lastCall.op \in {"validate", "default_querystring"} =>
           /\ lastCall.err \in {NoError, "ValueError"}
           /\ lastCall.err = "ValueError" <=> InvalidUpdate(builder)
           /\ lastCall.err = "ValueError" => lastCall.result = <<>>
    /\ (lastCall.op = "default_querystring" /\ lastCall.err = NoError) =>
           Len(lastCall.result) = 1
    /\ lastCall.op \in {"update", "values", "where"} =>
           lastCall.err = NoError

\* A rendering that failed because the second of two target columns is
\* reached through a foreign key, values() and where() having succeeded.
C5_Witness ==
    /\ lastCall.op = "default_querystring"
    /\ lastCall.err = "ValueError"
    /\ Len(builder.values) = 2
    /\ builder.values[1].column.call_chain = <<>>
    /\ builder.values[2].column.call_chain # <<>>
    /\ builder.where # <<>>

\* The positions of the placeholders of a template, left to right.
PlaceholderPositions(t) ==
    SelectSeq([k \in 1..Len(t) |-> k], LAMBDA k : t[k] = Placeholder)

\* The rendering of a valid Update: one placeholder per target column, the
\* i-th argument the new value of the i-th column of the SET fragment, and
\* with a predicate the template {} WHERE {} binding the UPDATE's values and
\* then the predicate's.
C6_General ==
    (lastCall.op = "default_querystring" /\ lastCall.err = NoError) =>
        LET q == lastCall.result[1]
            n == Len(builder.values)
            update == IF builder.where = <<>> THEN q ELSE q.args[1].value
            at == PlaceholderPositions(update.template)
        IN  /\ Len(at) = n
            /\ Len(update.args) = n
            /\ \A i \in 1..n :
                   /\ update.args[i] = Val(builder.values[i].value)
                   /\ update.template[at[i] - 1]
                          = builder.values[i].column.name \o " = "
            /\ builder.where # <<>> =>
                   /\ q.template = <<Placeholder, " WHERE ", Placeholder>>
                   /\ q.args = <<Nested(update), Nested(builder.where[1])>>
                   /\ Render(q).binds
                          = Render(update).binds \o Render(builder.where[1]).binds
            /\ builder.where = <<>> =>
                   \A k \in 1..Len(q.template) : q.template[k] # " WHERE "

C6_Example ==
    (/\ lastCall.op = "default_querystring"
     /\ Len(builder.values) = 1
     /\ builder.values[1].column.id = "Band.name"
     /\ builder.values[1].value = "Spamalot"
     /\ builder.where
            = <<WhereQuerystring([column |-> "name", value |-> "Pythonistas"])>>)
        => /\ lastCall.err = NoError
           /\ Text(Render(lastCall.result[1]).sql)
                  = "UPDATE \"band\" SET name = {} WHERE name = {}"
           /\ Render(lastCall.result[1]).binds = <<"Spamalot", "Pythonistas">>

\* C6: every valid Update renders as C6_General says, and
\* Band.update().values({Band.name: "Spamalot"}).where(Band.name ==
\* "Pythonistas") renders to UPDATE "band" SET name = {} WHERE name = {} with
\* the bind values Spamalot, Pythonistas.
C6_UpdateRendering == C6_General /\ C6_Example

====
